---- MODULE Spec2Model ----
(***************************************************************************)
(* Model of the stock-quote retrieval layer of pranit144/finance:          *)
(* backend/app/services/stock_service.py (class StockService).             *)
(*                                                                         *)
(* Units.  Upstream prices are integers in thousandths of a currency unit  *)
(* ("mills", 150.004 = 150004) so that round(x, 2) is a real conversion;   *)
(* a Quote's price and change are in hundredths (cents) and its            *)
(* change_percent in hundredths of a percent.  Time is in seconds.         *)
(*                                                                         *)
(* Python's None is the empty sequence <<>> and a present value v is the   *)
(* one-element sequence <<v>>.                                             *)
(***************************************************************************)
EXTENDS Integers, Sequences, FiniteSets, TLC

VARIABLES
    cache,      \* StockService._cache: cache_key -> [data, time]
    now,        \* the wall clock, datetime.now()
    upstream,   \* what Yahoo Finance answers at present (the environment)
    last,       \* the most recent caller-facing call and what it returned
    budget,     \* caller-facing calls still to be made in this run
    served,     \* per request (symbol, flag): the Quote get_stock_quote last returned
    pc,         \* get_popular_stocks: where its calling thread is
    futures,    \* get_popular_stocks: future_to_symbol, by symbol
    finished,   \* as_completed: futures found finished when it started
    waiter,     \* as_completed: waiter.finished_futures, in completion order
    stocks,     \* get_popular_stocks: the list being built
    hung,       \* symbols whose upstream call never returns
    waitSince,  \* when the calling thread last made a step
    calls       \* concurrent get_stock_quote calls, by calling thread

qvars == <<cache, now, upstream, last, budget, served>>
pvars == <<pc, futures, finished, waiter, stocks, hung, calls, waitSince>>
vars == <<cache, now, upstream, last, budget, served,
          pc, futures, finished, waiter, stocks, hung, calls, waitSince>>

(***************************************************************************)
(* Bounds of the model.                                                    *)
(***************************************************************************)
MaxCalls == 3
MaxTime == 30
MaxHung == 1
MaxThreads == 2

(***************************************************************************)
(* Program constants.                                                      *)
(***************************************************************************)
CacheDuration == 30
MaxWorkers == 5
FutureTimeout == 10

POPULAR_SYMBOLS == <<"AAPL", "GOOGL", "MSFT", "TSLA">>

PopularSet == {POPULAR_SYMBOLS[k] : k \in 1..Len(POPULAR_SYMBOLS)}

None == <<>>
Some(v) == <<v>>

\* Python truthiness of an optional number: None and 0 are falsy.
Truthy(o) == o # None /\ o[1] # 0

\* Python truthiness of an optional string: None and "" are falsy.
TruthyStr(o) == o # None /\ o[1] # ""

\* Python's `a or b` on optional numbers.
Or(a, b) == IF Truthy(a) THEN a ELSE b

\* round-half-even of n / d for d > 0 (Python's round on a quotient).
RoundDiv(n, d) ==
    LET q == n \div d
        r == n % d
    IN  IF 2 * r < d THEN q
        ELSE IF 2 * r > d THEN q + 1
        ELSE IF q % 2 = 0 THEN q ELSE q + 1

\* round(float(x), 2) of a value in mills, as cents.
Round2(mills) == RoundDiv(mills, 10)

\* str.upper() on the symbols of the model.
Upper(symbol) ==
    CASE symbol = "aapl" -> "AAPL"
      [] symbol = "msft" -> "MSFT"
      [] OTHER -> symbol

\* str(bool) as an f-string renders it.
PyStr(b) == IF b THEN "True" ELSE "False"

\* Mutant: the key leaves the sparkline flag out.
CacheKeyWithoutFlag(symbol, include_sparkline) == "quote_" \o symbol

\* cache_key = f"quote_{symbol}_{include_sparkline}"
CacheKey(symbol, include_sparkline) ==
    "quote_" \o symbol \o "_" \o PyStr(include_sparkline)

(***************************************************************************)
(* The fetch path of get_stock_quote (lines 44-122) as a function of what  *)
(* the upstream answers.  `up` is one upstream answer:                     *)
(*   fast_info  the fields of stock.fast_info,                             *)
(*   fastRaise  the fast_info access that raises: "none", "fast_info" (the *)
(*              property itself) or the key whose .get() raises,           *)
(*   info       the fields of stock.info,                                  *)
(*   infoRaise  the places of the code where reading stock.info raises:    *)
(*              "price" (line 66), "longName", "shortName" (line 88),      *)
(*              "trailingPE" (line 100),                                   *)
(*   history    stock.history(period="1mo"): whether it raises, and the    *)
(*              Close column,                                              *)
(*   latency    seconds the upstream calls take.                           *)
(***************************************************************************)

\* lines 48-51: the locals before any snapshot is read.
InitialLocals ==
    [current_price |-> None, previous_close |-> None,
     volume |-> Some(0), market_cap |-> Some(0)]

\* lines 54-61: the fast_info block; the bare except keeps what was assigned
\* before the access that raised.
FastInfoBlock(up) ==
    LET f == up.fast_info
        fr == up.fastRaise
        s0 == InitialLocals
        s1 == [s0 EXCEPT !.current_price = Or(f.lastPrice, f.regularMarketPrice)]
        s2 == [s1 EXCEPT !.previous_close = f.previousClose]
        s3 == [s2 EXCEPT !.volume = Or(Or(f.lastVolume, f.volume), Some(0))]
        s4 == [s3 EXCEPT !.market_cap = Or(f.marketCap, Some(0))]
    IN  IF fr = "fast_info" THEN s0
        ELSE IF fr = "lastPrice"
                \/ (~Truthy(f.lastPrice) /\ fr = "regularMarketPrice") THEN s0
        ELSE IF fr = "previousClose" THEN s1
        ELSE IF fr = "lastVolume"
                \/ (~Truthy(f.lastVolume) /\ fr = "volume") THEN s2
        ELSE IF fr = "marketCap" THEN s3
        ELSE s4

\* Mutant: the stock.info fallback runs even when the fast snapshot gave a price.
InfoBlockAlways(loc, up) ==
    LET i == up.info
    IN  IF "price" \in up.infoRaise THEN loc
        ELSE [current_price |-> Or(i.currentPrice, i.regularMarketPrice),
              previous_close |-> Or(i.previousClose, i.regularMarketPreviousClose),
              volume |-> Or(Or(i.volume, i.regularMarketVolume), Some(0)),
              market_cap |-> Or(i.marketCap, Some(0))]

\* lines 64-72: the stock.info fallback, entered only when no price was found.
InfoBlock(loc, up) ==
    LET i == up.info
    IN  IF Truthy(loc.current_price) THEN loc
        ELSE IF "price" \in up.infoRaise THEN loc
        ELSE [current_price |-> Or(i.currentPrice, i.regularMarketPrice),
              previous_close |-> Or(i.previousClose, i.regularMarketPreviousClose),
              volume |-> Or(Or(i.volume, i.regularMarketVolume), Some(0)),
              market_cap |-> Or(i.marketCap, Some(0))]

\* Mutant: a missing previous close is taken as 0.
PreviousCloseOrZero(loc) ==
    IF Truthy(loc.previous_close) THEN loc.previous_close[1] ELSE 0

\* lines 79-80: previous close defaults to the current price.
PreviousCloseOrPrice(loc) ==
    IF Truthy(loc.previous_close) THEN loc.previous_close[1]
    ELSE loc.current_price[1]

\* Mutant: the change is taken between the rounded prices.
ChangeRoundedFirst(current_price, previous_close) ==
    10 * (Round2(current_price) - Round2(previous_close))

\* lines 83-84, in mills and in hundredths of a percent after rounding.
Change(current_price, previous_close) == current_price - previous_close

ChangePercent(current_price, previous_close) ==
    IF previous_close # 0
    THEN RoundDiv(Change(current_price, previous_close) * 10000, previous_close)
    ELSE 0

\* Mutant: the short name is preferred to the long name.
CompanyNameShortFirst(symbol, up) ==
    LET i == up.info
    IN  IF "longName" \in up.infoRaise \/ "shortName" \in up.infoRaise THEN symbol
        ELSE IF TruthyStr(i.shortName) THEN i.shortName[1]
        ELSE IF TruthyStr(i.longName) THEN i.longName[1]
        ELSE symbol

\* lines 87-90: the company name.
CompanyName(symbol, up) ==
    LET i == up.info
    IN  IF "longName" \in up.infoRaise THEN symbol
        ELSE IF TruthyStr(i.longName) THEN i.longName[1]
        ELSE IF "shortName" \in up.infoRaise THEN symbol
        ELSE IF TruthyStr(i.shortName) THEN i.shortName[1]
        ELSE symbol

\* lines 104-113: the sparkline key of the result; None is "key not set".
Sparkline(up) ==
    IF up.history.raises THEN Some(<<>>)
    ELSE IF up.history.Close = <<>> THEN None
    ELSE Some([k \in 1..Len(up.history.Close) |-> Round2(up.history.Close[k])])

\* How many times each upstream resource is read by one fetch.
UpstreamCalls(symbol, include_sparkline, up) ==
    LET fastLoc == FastInfoBlock(up)
        loc == InfoBlock(fastLoc, up)
        priced == Truthy(loc.current_price)
        atPrice == IF Truthy(fastLoc.current_price) THEN 0 ELSE 1
        atLong == IF priced THEN 1 ELSE 0
        atShort == IF priced /\ "longName" \notin up.infoRaise
                      /\ ~TruthyStr(up.info.longName) THEN 1 ELSE 0
        atPE == IF priced THEN 1 ELSE 0
        built == priced /\ "trailingPE" \notin up.infoRaise
    IN  [fast_info |-> 1,
         info |-> atPrice + atLong + atShort + atPE,
         infoForPrice |-> atPrice,
         history |-> IF built /\ include_sparkline THEN 1 ELSE 0]

\* Mutant: only a price of None counts as missing.
NoPriceOnlyNone(loc) == loc.current_price = None

\* line 74: `if not current_price`, no price or a price of 0.
NoPrice(loc) == ~Truthy(loc.current_price)

\* lines 44-118, the body of the outer try: what it returns, or that an
\* exception leaves it (raised).
QuoteBody(symbol, include_sparkline, up, utcnow) ==
    LET loc == InfoBlock(FastInfoBlock(up), up)
    IN  IF NoPrice(loc)                                           \* lines 74-76
        THEN [raised |-> FALSE, value |-> None]
        ELSE IF "trailingPE" \in up.infoRaise                     \* line 100
        THEN [raised |-> TRUE, value |-> None]
        ELSE LET current_price == loc.current_price[1]
                 previous_close == PreviousCloseOrPrice(loc)
             IN  [raised |-> FALSE,
                  value |->
                    Some([symbol |-> Upper(symbol),
                          name |-> CompanyName(symbol, up),
                          price |-> Round2(current_price),
                          change |-> Round2(Change(current_price, previous_close)),
                          change_percent |-> ChangePercent(current_price, previous_close),
                          volume |-> loc.volume[1],
                          market_cap |-> loc.market_cap[1],
                          pe_ratio |-> up.info.trailingPE,
                          updated_at |-> utcnow,
                          sparkline |-> IF include_sparkline THEN Sparkline(up)
                                        ELSE None])]

\* Mutant: the handler lets the exception through.
ExceptPropagates(outcome) == outcome

\* lines 120-122 and 219-221: `except Exception` logs and returns None.
ExceptReturnsNone(outcome) ==
    IF outcome.raised THEN [raised |-> FALSE, value |-> None] ELSE outcome

\* lines 44-122 without the cache store.
FetchOutcome(symbol, include_sparkline, up, utcnow) ==
    ExceptReturnsNone(QuoteBody(symbol, include_sparkline, up, utcnow))

\* What the fetch hands back: the Quote (Some) or None.
FetchQuote(symbol, include_sparkline, up, utcnow) ==
    FetchOutcome(symbol, include_sparkline, up, utcnow).value

(***************************************************************************)
(* The upstream answers the model draws from.                              *)
(***************************************************************************)
FastRaises ==
    {"none", "fast_info", "lastPrice", "regularMarketPrice", "previousClose",
     "lastVolume", "volume", "marketCap"}

InfoSites == {"price", "longName", "shortName", "trailingPE"}

Bars == [raises |-> FALSE, Close |-> <<149996, 150204>>]
NoBars == [raises |-> FALSE, Close |-> <<>>]
HistoryDown == [raises |-> TRUE, Close |-> <<>>]

\* Answers that vary every field of the price and previous-close chains.
PriceAnswers ==
    [fast_info : [lastPrice : {None, Some(0), Some(150000)},
                  regularMarketPrice : {None, Some(0), Some(150204)},
                  previousClose : {None, Some(0), Some(148000)},
                  lastVolume : {None}, volume : {Some(2000)}, marketCap : {None}],
     fastRaise : FastRaises,
     info : [currentPrice : {None, Some(149507)},
             regularMarketPrice : {None, Some(149200)},
             previousClose : {None, Some(147000)},
             regularMarketPreviousClose : {None, Some(152003)},
             volume : {None}, regularMarketVolume : {Some(4000)},
             marketCap : {Some(6000000)},
             longName : {Some("Apple Inc.")}, shortName : {None},
             trailingPE : {Some(28)}],
     infoRaise : {{}, {"price"}},
     history : {Bars},
     latency : {0}]

\* Answers that vary every field of the volume and market-cap chains.
VolumeAnswers ==
    [fast_info : [lastPrice : {None, Some(150000)},
                  regularMarketPrice : {None},
                  previousClose : {Some(148000)},
                  lastVolume : {None, Some(0), Some(1000)},
                  volume : {None, Some(2000)},
                  marketCap : {None, Some(0), Some(5000000)}],
     fastRaise : FastRaises,
     info : [currentPrice : {None, Some(149507)},
             regularMarketPrice : {None},
             previousClose : {None},
             regularMarketPreviousClose : {Some(152003)},
             volume : {None, Some(3000)},
             regularMarketVolume : {None, Some(4000)},
             marketCap : {None, Some(6000000)},
             longName : {None}, shortName : {Some("Apple")},
             trailingPE : {None}],
     infoRaise : {{}, {"price"}},
     history : {NoBars},
     latency : {0}]

\* Answers that vary the name, the P/E, the history and where stock.info raises.
NameAnswers ==
    [fast_info : [lastPrice : {None, Some(150000)},
                  regularMarketPrice : {None},
                  previousClose : {Some(148000)},
                  lastVolume : {Some(1000)}, volume : {None},
                  marketCap : {Some(5000000)}],
     fastRaise : {"none"},
     info : [currentPrice : {None, Some(149507)},
             regularMarketPrice : {None},
             previousClose : {Some(147000)},
             regularMarketPreviousClose : {None},
             volume : {Some(3000)}, regularMarketVolume : {None},
             marketCap : {Some(6000000)},
             longName : {None, Some(""), Some("Apple Inc.")},
             shortName : {None, Some("Apple")},
             trailingPE : {None, Some(0), Some(28)}],
     infoRaise : SUBSET InfoSites,
     history : {Bars, NoBars, HistoryDown},
     latency : {0}]

AllAnswers == PriceAnswers \cup VolumeAnswers \cup NameAnswers

\* A healthy upstream: both snapshots complete.
Healthy ==
    [fast_info |-> [lastPrice |-> Some(150000), regularMarketPrice |-> None,
                    previousClose |-> Some(148000), lastVolume |-> Some(1000),
                    volume |-> None, marketCap |-> Some(5000000)],
     fastRaise |-> "none",
     info |-> [currentPrice |-> Some(149507), regularMarketPrice |-> None,
               previousClose |-> Some(147000), regularMarketPreviousClose |-> None,
               volume |-> Some(3000), regularMarketVolume |-> None,
               marketCap |-> Some(6000000), longName |-> Some("Apple Inc."),
               shortName |-> Some("Apple"), trailingPE |-> Some(28)],
     infoRaise |-> {},
     history |-> Bars,
     latency |-> 0]

\* Neither snapshot can be read.
NothingPriced == [Healthy EXCEPT !.fastRaise = "fast_info", !.infoRaise = {"price"}]

\* The few answers the cache specification moves between: healthy; slow with
\* the fast snapshot and the history down; and nothing priced.
FewAnswers ==
    {Healthy,
     [Healthy EXCEPT !.fastRaise = "fast_info", !.history = HistoryDown,
                     !.latency = 1],
     NothingPriced}

Symbols == {"AAPL", "aapl", "MSFT"}

\* Time passes in steps that land on both sides of the freshness window.
TickSteps == {CacheDuration \div 2, CacheDuration - 1}

(***************************************************************************)
(* The service.                                                            *)
(***************************************************************************)
NoCall == [op |-> "none"]

NothingServed == [r \in (Symbols \cup PopularSet) \X BOOLEAN |-> None]

NoUpstreamCalls == [fast_info |-> 0, info |-> 0, infoForPrice |-> 0, history |-> 0]

\* Mutant: an entry is served whatever its age.
FreshAlways(key) == key \in DOMAIN cache

\* Mutant: the age test is inverted.
FreshInverted(key) ==
    /\ key \in DOMAIN cache
    /\ now - cache[key].time > CacheDuration

\* Mutant: an entry exactly as old as the window still counts as fresh.
FreshInclusive(key) ==
    /\ key \in DOMAIN cache
    /\ now - cache[key].time <= CacheDuration

\* lines 38-40: the entry for the key is present and younger than the window.
Fresh(key) ==
    /\ key \in DOMAIN cache
    /\ now - cache[key].time < CacheDuration

\* Mutant: a store keeps one entry only.
StoredEvicting(c, key, record) == key :> record

\* Mutant: a store over an entry changes its Quote and keeps its time.
StoredInPlace(c, key, record) ==
    IF key \in DOMAIN c THEN [c EXCEPT ![key].data = record.data]
    ELSE (key :> record) @@ c

\* Mutant: a store over an entry changes its time and keeps its Quote.
StoredTorn(c, key, record) ==
    IF key \in DOMAIN c THEN [c EXCEPT ![key].time = record.time]
    ELSE (key :> record) @@ c

\* line 116: _cache[cache_key] = (result, datetime.now()); the pair is built
\* first and bound to the key in one dictionary assignment.
Stored(c, key, record) == (key :> record) @@ c

\* Mutant: a failed fetch drops the entry of its key.
CacheDroppedOnFailure(key, result, at) ==
    IF result # None THEN Stored(cache, key, [data |-> result[1], time |-> at])
    ELSE [k \in DOMAIN cache \ {key} |-> cache[k]]

\* lines 74-76, 116 and 120-122: the cache after a fetch that ended at `at`;
\* only a fetch that built a Quote stores.
CacheAfterFetch(key, result, at) ==
    IF result # None THEN Stored(cache, key, [data |-> result[1], time |-> at])
    ELSE cache

\* get_stock_quote(symbol, include_sparkline), lines 25-122.
GetStockQuote(symbol, include_sparkline) ==
    LET cache_key == CacheKey(symbol, include_sparkline)
        before == IF cache_key \in DOMAIN cache THEN Some(cache[cache_key]) ELSE None
        freshBefore == {s \in Symbols : Fresh(CacheKey(s, include_sparkline))}
        done == now + upstream.latency
        result == FetchQuote(symbol, include_sparkline, upstream, done)
    IN  /\ budget > 0
        /\ pc = "idle"
        /\ budget' = budget - 1
        /\ UNCHANGED <<upstream, pvars>>
        /\ IF Fresh(cache_key)
           THEN /\ last' = [op |-> "get_stock_quote", symbol |-> symbol,
                            include_sparkline |-> include_sparkline, at |-> now,
                            before |-> before, hit |-> TRUE,
                            prev |-> served[<<symbol, include_sparkline>>],
                            freshBefore |-> freshBefore,
                            calls |-> NoUpstreamCalls,
                            result |-> Some(cache[cache_key].data),
                            raised |-> FALSE]
                /\ served' = [served EXCEPT ![<<symbol, include_sparkline>>] =
                                                Some(cache[cache_key].data)]
                /\ UNCHANGED <<cache, now>>
           ELSE /\ last' = [op |-> "get_stock_quote", symbol |-> symbol,
                            include_sparkline |-> include_sparkline, at |-> now,
                            before |-> before, hit |-> FALSE,
                            prev |-> served[<<symbol, include_sparkline>>],
                            freshBefore |-> freshBefore,
                            calls |-> UpstreamCalls(symbol, include_sparkline, upstream),
                            result |-> result,
                            raised |-> FetchOutcome(symbol, include_sparkline,
                                                    upstream, done).raised]
                /\ served' = IF result # None
                             THEN [served EXCEPT ![<<symbol, include_sparkline>>] = result]
                             ELSE served
                /\ now' = done
                /\ cache' = CacheAfterFetch(cache_key, result, done)

\* The clock advances.
Tick(d) ==
    /\ now + d <= MaxTime
    /\ now' = now + d
    /\ UNCHANGED <<cache, upstream, last, budget, served, pvars>>

\* The upstream starts answering differently.
UpstreamChanges(u) ==
    /\ u # upstream
    /\ upstream' = u
    /\ UNCHANGED <<cache, now, last, budget, served, pvars>>

(***************************************************************************)
(* get_stock_quote called from several threads at once.  A call is two     *)
(* steps: the cache lookup of lines 37-42, and, after a miss, the upstream *)
(* calls with the store of line 116.  Other threads run between the two.   *)
(***************************************************************************)
Threads == 1..MaxThreads

NoCalls == [t \in Threads |-> [state |-> "idle"]]

\* The threads that are between a miss and their store, for a key.
Fetching(key) ==
    {t \in Threads : calls[t].state = "fetching" /\ calls[t].key = key}

\* Mutant: a miss waits while another thread fetches the same key.
AfterMissSingleFlight(t, key) ==
    IF Fetching(key) \ {t} # {} THEN "waiting" ELSE "fetching"

\* lines 43-46: nothing stands between a miss and the fetch, no lock and no
\* table of fetches in flight.
AfterMiss(t, key) == "fetching"

\* lines 37-42 in thread t: a fresh entry is returned, anything else is a miss.
CallLookup(t, symbol, include_sparkline) ==
    LET key == CacheKey(symbol, include_sparkline)
    IN  /\ calls[t].state = "idle"
        /\ calls' = [calls EXCEPT ![t] =
              IF Fresh(key)
              THEN [state |-> "done", symbol |-> symbol,
                    include_sparkline |-> include_sparkline, key |-> key,
                    hit |-> TRUE, read |-> Some(cache[key]), at |-> now,
                    result |-> Some(cache[key].data), stored |-> None,
                    fetches |-> 0]
              ELSE [state |-> AfterMiss(t, key), symbol |-> symbol,
                    include_sparkline |-> include_sparkline, key |-> key,
                    hit |-> FALSE,
                    read |-> IF key \in DOMAIN cache THEN Some(cache[key]) ELSE None,
                    at |-> now, result |-> None, stored |-> None, fetches |-> 0]]
        /\ UNCHANGED <<qvars, pc, futures, finished, waiter, stocks, hung, waitSince>>

\* lines 44-122 in thread t: the upstream answers, and the call stores and
\* returns what it built.
CallReturns(t) ==
    /\ calls[t].state = "fetching"
    /\ LET c == calls[t]
           result == FetchQuote(c.symbol, c.include_sparkline, upstream, now)
           record == IF result # None
                     THEN Some([data |-> result[1], time |-> now]) ELSE None
       IN  /\ cache' = CacheAfterFetch(c.key, result, now)
           /\ calls' = [calls EXCEPT ![t] =
                 [c EXCEPT !.state = "done", !.result = result,
                           !.stored = record,
                           !.fetches = UpstreamCalls(c.symbol, c.include_sparkline,
                                                     upstream).fast_info]]
           /\ last' = [op |-> "store", thread |-> t, key |-> c.key,
                       record |-> record]
    /\ UNCHANGED <<now, upstream, budget, served, pc, futures, finished, waiter,
                   stocks, hung, waitSince>>

(***************************************************************************)
(* get_popular_stocks, lines 125-155: the calling thread and one pool      *)
(* thread per submitted future.                                            *)
(***************************************************************************)
NoFutures ==
    [s \in PopularSet |-> [state |-> "unsubmitted", result |-> None,
                           exception |-> FALSE, order |-> 0, early |-> FALSE]]

PopularIdle ==
    /\ pc = "idle"
    /\ futures = NoFutures
    /\ finished = {}
    /\ waiter = <<>>
    /\ stocks = <<>>
    /\ waitSince = 0

Running == {s \in PopularSet : futures[s].state = "running"}
Submitted == {s \in PopularSet : futures[s].state # "unsubmitted"}
Finished == {s \in PopularSet : futures[s].state = "finished"}

\* lines 132-133: the call begins.
PopularBegin ==
    /\ pc = "idle"
    /\ budget > 0
    /\ budget' = budget - 1
    /\ pc' = "submit"
    /\ futures' = NoFutures
    /\ finished' = {}
    /\ waiter' = <<>>
    /\ stocks' = <<>>
    /\ waitSince' = now
    /\ UNCHANGED <<cache, now, upstream, last, served, hung, calls>>

\* Mutant: the last symbol of the list is not submitted.
SubmitAllButLast ==
    /\ pc = "submit"
    /\ LET k == Cardinality(Submitted) + 1
       IN  /\ futures' = [futures EXCEPT ![POPULAR_SYMBOLS[k]].state = "pending"]
           /\ pc' = IF k = Len(POPULAR_SYMBOLS) - 1 THEN "as_completed" ELSE "submit"
    /\ waitSince' = now
    /\ UNCHANGED <<qvars, finished, waiter, stocks, hung, calls>>

\* lines 138-141: executor.submit for the next symbol of POPULAR_SYMBOLS.
Submit ==
    /\ pc = "submit"
    /\ LET k == Cardinality(Submitted) + 1
       IN  /\ futures' = [futures EXCEPT ![POPULAR_SYMBOLS[k]].state = "pending"]
           /\ pc' = IF k = Len(POPULAR_SYMBOLS) THEN "as_completed" ELSE "submit"
    /\ waitSince' = now
    /\ UNCHANGED <<qvars, finished, waiter, stocks, hung, calls>>

\* The futures that have completed.
Completed == {s \in PopularSet : futures[s].state \in {"finished", "yielded"}}

\* A future that finishes, with the value its call returned or the exception
\* it raised, is handed to the waiter once as_completed installed it.  `order`
\* numbers the futures as they complete; `early` marks those as_completed
\* found finished when it started.
Finish(s, outcome) ==
    /\ futures' = [futures EXCEPT ![s] = [state |-> "finished",
                                          result |-> outcome.value,
                                          exception |-> outcome.raised,
                                          order |-> Cardinality(Completed) + 1,
                                          early |-> FALSE]]
    /\ waiter' = IF pc = "loop" THEN Append(waiter, s) ELSE waiter

\* A pool thread takes a pending future and runs lines 36-42 of
\* get_stock_quote(symbol): a fresh entry is returned at once, otherwise the
\* upstream calls begin.
WorkerStarts(s) ==
    /\ futures[s].state = "pending"
    /\ Cardinality(Running) < MaxWorkers
    /\ IF Fresh(CacheKey(s, FALSE))
       THEN Finish(s, [raised |-> FALSE,
                       value |-> Some(cache[CacheKey(s, FALSE)].data)])
       ELSE /\ futures' = [futures EXCEPT ![s].state = "running"]
            /\ UNCHANGED waiter
    /\ UNCHANGED <<qvars, pc, finished, stocks, hung, calls, waitSince>>

\* The upstream calls of a running fetch return: lines 44-122, with the store.
WorkerReturns(s) ==
    /\ futures[s].state = "running"
    /\ s \notin hung
    /\ LET outcome == FetchOutcome(s, FALSE, upstream, now)
           result == outcome.value
       IN  /\ cache' = CacheAfterFetch(CacheKey(s, FALSE), result, now)
           /\ served' = IF result # None
                        THEN [served EXCEPT ![<<s, FALSE>>] = result]
                        ELSE served
           /\ Finish(s, outcome)
    /\ UNCHANGED <<now, upstream, last, budget, pc, finished, stocks, hung, calls,
                   waitSince>>

\* line 144, first next() of as_completed: the futures already finished are
\* set aside, the waiter is installed for the others.
AsCompleted ==
    /\ pc = "as_completed"
    /\ pc' = "loop"
    /\ finished' = Finished
    /\ futures' = [s \in PopularSet |->
                      [futures[s] EXCEPT !.early = (s \in Finished)]]
    /\ waiter' = <<>>
    /\ waitSince' = now
    /\ UNCHANGED <<qvars, stocks, hung, calls>>

\* Mutant: a symbol without a quote empties the list.
CollectedFailureClears(s) ==
    LET quote == futures[s].result
    IN  /\ stocks' = IF ~futures[s].exception /\ quote # None
                      THEN Append(stocks, quote[1]) ELSE <<>>
        /\ futures' = [futures EXCEPT ![s].state = "yielded"]
        /\ waitSince' = now

\* lines 145-152: one turn of the loop on a future as_completed yields;
\* future.result(timeout=10) is asked of a future that has finished, and
\* re-raises what the call raised into the except of line 151.
Collected(s) ==
    LET quote == futures[s].result
    IN  /\ stocks' = IF ~futures[s].exception /\ quote # None
                      THEN Append(stocks, quote[1]) ELSE stocks
        /\ futures' = [futures EXCEPT ![s].state = "yielded"]
        /\ waitSince' = now

\* Mutant: the futures of the waiter are taken newest first.
CollectNewestFirst ==
    /\ pc = "loop"
    /\ \/ \E s \in finished :
             /\ Collected(s)
             /\ finished' = finished \ {s}
             /\ UNCHANGED waiter
       \/ /\ finished = {}
          /\ waiter # <<>>
          /\ Collected(waiter[Len(waiter)])
          /\ waiter' = SubSeq(waiter, 1, Len(waiter) - 1)
          /\ UNCHANGED finished
    /\ UNCHANGED <<qvars, pc, hung, calls>>

\* line 144: as_completed yields the futures it found finished, in the
\* order of a set, then the others as they finish.
Collect ==
    /\ pc = "loop"
    /\ \/ \E s \in finished :
             /\ Collected(s)
             /\ finished' = finished \ {s}
             /\ UNCHANGED waiter
       \/ /\ finished = {}
          /\ waiter # <<>>
          /\ Collected(Head(waiter))
          /\ waiter' = Tail(waiter)
          /\ UNCHANGED finished
    /\ UNCHANGED <<qvars, pc, hung, calls>>

\* as_completed is exhausted once every future has been yielded; there is no
\* timeout on it, so until then the calling thread waits.
LoopEnds ==
    /\ pc = "loop"
    /\ \A s \in PopularSet : futures[s].state = "yielded"
    /\ pc' = "exit"
    /\ waitSince' = now
    /\ UNCHANGED <<qvars, futures, finished, waiter, stocks, hung, calls>>

\* leaving the with block: shutdown(wait=True), then lines 154-155.
PopularReturns ==
    /\ pc = "exit"
    /\ Running = {}
    /\ pc' = "idle"
    /\ last' = [op |-> "get_popular_stocks", at |-> now, result |-> stocks,
                raised |-> FALSE,
                quotes |-> [s \in PopularSet |->
                              IF futures[s].exception THEN None
                              ELSE futures[s].result]]
    /\ futures' = NoFutures
    /\ stocks' = <<>>
    /\ waitSince' = now
    /\ UNCHANGED <<cache, now, upstream, budget, served, finished, waiter, hung, calls>>

\* The calling thread can make a step.
CallerCanStep ==
    \/ pc \in {"submit", "as_completed", "exit"}
    \/ pc = "loop" /\ (finished # {} \/ waiter # <<>>
                         \/ \A s \in PopularSet : futures[s].state = "yielded")

\* Seconds pass only while every thread of the call waits on the upstream.
PopularTick(d) ==
    /\ pc # "idle"
    /\ ~CallerCanStep
    /\ \A s \in PopularSet : futures[s].state # "pending"
    /\ now + d <= MaxTime
    /\ now' = now + d
    /\ UNCHANGED <<cache, upstream, last, budget, served, pvars>>

(***************************************************************************)
(* get_historical_price, lines 178-221.  A datetime is a day number (day 0 *)
(* is a Monday) and an hour.  A market is what the upstream holds for one  *)
(* ticker: whether asking it raises, and its daily bars [day, Low], oldest *)
(* first, Low in mills.  `world` gives the market of every ticker asked.   *)
(***************************************************************************)
WindowDays == 7

NS == ".NS"

\* date_obj.strftime("%Y-%m-%d"): the calendar day, the time of day dropped.
Strftime(date_obj) == date_obj.day

\* date_obj + timedelta(days=n)
PlusDays(date_obj, n) == [date_obj EXCEPT !.day = @ + n]

\* str.endswith
EndsWith(symbol, suffix) ==
    /\ Len(symbol) >= Len(suffix)
    /\ SubSeq(symbol, Len(symbol) - Len(suffix) + 1, Len(symbol)) = suffix

\* Ticker.history(start=, end=): the bars from start up to the day before
\* end, oldest first; or the request raises.
History(market, start, end) ==
    [raised |-> market.raises,
     value |-> IF market.raises THEN None
               ELSE Some(SelectSeq(market.bars,
                                   LAMBDA bar : start <= bar.day /\ bar.day < end))]

\* lines 195-197: the window asked of the upstream.
Window(date_obj) ==
    [start |-> Strftime(date_obj), end |-> Strftime(PlusDays(date_obj, WindowDays))]

\* Mutant: a fresh cached Quote of the ticker is used in place of the upstream.
fetch_history_cached(ticker_symbol, date_obj, world) ==
    LET w == Window(date_obj)
        answer == History(world[ticker_symbol], w.start, w.end)
        key == CacheKey(ticker_symbol, FALSE)
    IN  IF Fresh(key)
        THEN Some(<<[day |-> w.start, Low |-> 10 * cache[key].data.price]>>)
        ELSE IF answer.raised THEN None ELSE answer.value

\* lines 191-202, fetch_history: the frame, or None when anything raised.
fetch_history(ticker_symbol, date_obj, world) ==
    LET w == Window(date_obj)
        answer == History(world[ticker_symbol], w.start, w.end)
    IN  IF answer.raised THEN None ELSE answer.value

\* `history is None or history.empty`
NoHistory(history) == history = None \/ history[1] = <<>>

\* Mutant: the retry is made after an empty frame only, not after an error.
RetryOnlyWhenEmpty(symbol, history) ==
    history # None /\ history[1] = <<>> /\ ~EndsWith(symbol, NS)

\* Mutant: the retry is made whatever the symbol ends with.
RetryAlways(symbol, history) == NoHistory(history)

\* line 209: the condition of the retry with the .NS suffix.
Retry(symbol, history) == NoHistory(history) /\ ~EndsWith(symbol, NS)

\* Mutant: the last bar of the frame is taken.
LowOfLastBar(history) == history[1][Len(history[1])].Low

\* line 215: float(history['Low'].iloc[0])
LowOfFirstBar(history) == history[1][1].Low

\* lines 204-218, the body of the try of get_historical_price.
HistoricalBody(symbol, date_obj, world) ==
    LET first == fetch_history(symbol, date_obj, world)
        history == IF Retry(symbol, first)
                   THEN fetch_history(symbol \o NS, date_obj, world)
                   ELSE first
    IN  [raised |-> FALSE,
         value |-> IF ~NoHistory(history) THEN Some(LowOfFirstBar(history))
                   ELSE None]

\* The upstream history queries one lookup issues, in order.
HistoryQueries(symbol, date_obj, world) ==
    LET w == Window(date_obj)
        first == fetch_history(symbol, date_obj, world)
    IN  <<[ticker |-> symbol, start |-> w.start, end |-> w.end]>>
        \o IF Retry(symbol, first)
           THEN <<[ticker |-> symbol \o NS, start |-> w.start, end |-> w.end]>>
           ELSE <<>>

\* get_historical_price(symbol, date_obj) against a world where the symbol
\* as given has the market `plain` and the symbol with .NS appended has the
\* market `suffixed`.
GetHistoricalPrice(symbol, date_obj, plain, suffixed) ==
    LET world == (symbol :> plain) @@ (symbol \o NS :> suffixed)
        outcome == ExceptReturnsNone(HistoricalBody(symbol, date_obj, world))
    IN  /\ budget > 0
        /\ pc = "idle"
        /\ budget' = budget - 1
        /\ last' = [op |-> "get_historical_price", symbol |-> symbol,
                    date_obj |-> date_obj, plain |-> plain, suffixed |-> suffixed,
                    queries |-> HistoryQueries(symbol, date_obj, world),
                    result |-> outcome.value, raised |-> outcome.raised]
        /\ UNCHANGED <<cache, now, upstream, served, pvars>>

\* The inputs of the historical lookups.
HistSymbols == {"AAPL", "RELIANCE", "RELIANCE.NS", "TCS.BO"}

Saturday == [day |-> 5, hour |-> 0]

Dates == {Saturday, [day |-> 5, hour |-> 15], [day |-> 7, hour |-> 9],
          [day |-> 11, hour |-> 0]}

Down == [raises |-> TRUE, bars |-> <<>>]
Unlisted == [raises |-> FALSE, bars |-> <<>>]

\* Bars on the Friday before, and on the Monday and Tuesday after, day 5.
Weekdays ==
    [raises |-> FALSE,
     bars |-> <<[day |-> 4, Low |-> 99000], [day |-> 7, Low |-> 101500],
                [day |-> 8, Low |-> 100250]>>]

\* A single bar a week after day 5, with a low of 0.
Later == [raises |-> FALSE, bars |-> <<[day |-> 12, Low |-> 0]>>]

\* Bars on the Indian exchange.
Indian ==
    [raises |-> FALSE,
     bars |-> <<[day |-> 7, Low |-> 2450500], [day |-> 9, Low |-> 2440000]>>]

Markets == {Down, Unlisted, Weekdays, Later, Indian}

Init ==
    /\ cache = [k \in {} |-> None]
    /\ now = 0
    /\ upstream = Healthy
    /\ last = NoCall
    /\ budget = MaxCalls
    /\ served = NothingServed
    /\ PopularIdle
    /\ hung = {}
    /\ calls = NoCalls

Next ==
    \/ \E symbol \in Symbols, include_sparkline \in BOOLEAN :
          GetStockQuote(symbol, include_sparkline)
    \/ \E d \in TickSteps : Tick(d)
    \/ \E u \in FewAnswers : UpstreamChanges(u)

Spec == Init /\ [][Next]_vars

\* One fetch against every upstream answer of the model, on an empty cache.
InitFetch ==
    /\ cache = [k \in {} |-> None]
    /\ now = 0
    /\ upstream \in AllAnswers
    /\ last = NoCall
    /\ budget = 1
    /\ served = NothingServed
    /\ PopularIdle
    /\ hung = {}
    /\ calls = NoCalls

NextFetch ==
    \E symbol \in Symbols, include_sparkline \in BOOLEAN :
        GetStockQuote(symbol, include_sparkline)

SpecFetch == InitFetch /\ [][NextFetch]_vars

\* The cache after get_stock_quote("AAPL") was answered by a healthy upstream.
WarmCache ==
    CacheKey("AAPL", FALSE) :>
        [data |-> FetchQuote("AAPL", FALSE, Healthy, 0)[1], time |-> 0]

\* One get_popular_stocks call, on an empty or a warm cache, with any set of at most MaxHung
\* symbols whose upstream call never returns.
InitPopular ==
    /\ cache \in {[k \in {} |-> None], WarmCache}
    /\ now = 0
    /\ upstream = Healthy
    /\ last = NoCall
    /\ budget = 1
    /\ served = IF cache = WarmCache
                THEN [NothingServed EXCEPT ![<<"AAPL", FALSE>>] =
                                              Some(WarmCache[CacheKey("AAPL", FALSE)].data)]
                ELSE NothingServed
    /\ PopularIdle
    /\ hung \in {h \in SUBSET PopularSet : Cardinality(h) <= MaxHung}
    /\ calls = NoCalls

NextPopular ==
    \/ PopularBegin
    \/ Submit
    \/ \E s \in PopularSet : WorkerStarts(s)
    \/ \E s \in PopularSet : WorkerReturns(s)
    \/ AsCompleted
    \/ Collect
    \/ LoopEnds
    \/ PopularReturns
    \/ \E d \in TickSteps : PopularTick(d)
    \/ \E u \in {Healthy, NothingPriced} : UpstreamChanges(u)

SpecPopular == InitPopular /\ [][NextPopular]_vars

\* Two calls of any operations of the service, one after the other, on an
\* empty or a warm cache, while the clock and the upstream move.
InitService ==
    /\ cache \in {[k \in {} |-> None], WarmCache}
    /\ now = 0
    /\ upstream = Healthy
    /\ last = NoCall
    /\ budget = 2
    /\ served = IF cache = WarmCache
                THEN [NothingServed EXCEPT ![<<"AAPL", FALSE>>] =
                                              Some(WarmCache[CacheKey("AAPL", FALSE)].data)]
                ELSE NothingServed
    /\ PopularIdle
    /\ hung = {}
    /\ calls = NoCalls

NextService ==
    \/ \E symbol \in {"AAPL", "MSFT"}, include_sparkline \in BOOLEAN :
          GetStockQuote(symbol, include_sparkline)
    \/ \E symbol \in {"AAPL", "RELIANCE"}, plain \in {Down, Weekdays},
          suffixed \in {Unlisted, Indian} :
          GetHistoricalPrice(symbol, Saturday, plain, suffixed)
    \/ PopularBegin
    \/ Submit
    \/ \E s \in PopularSet : WorkerStarts(s)
    \/ \E s \in PopularSet : WorkerReturns(s)
    \/ AsCompleted
    \/ Collect
    \/ LoopEnds
    \/ PopularReturns
    \/ pc = "idle" /\ Tick(CacheDuration)
    \/ pc = "idle" /\ \E u \in {Healthy, NothingPriced} : UpstreamChanges(u)

SpecService == InitService /\ [][NextService]_vars

\* Calls of get_stock_quote from MaxThreads threads at once, while the clock
\* and the upstream move.
NextConcurrent ==
    \/ \E t \in Threads, symbol \in {"AAPL", "MSFT"} :
          CallLookup(t, symbol, FALSE)
    \/ \E t \in Threads : CallReturns(t)
    \/ \E d \in TickSteps : Tick(d)
    \/ \E u \in FewAnswers : UpstreamChanges(u)

SpecConcurrent == Init /\ [][NextConcurrent]_vars

\* One historical lookup, for every symbol, date and pair of markets of the
\* model.
NextHistory ==
    \E symbol \in HistSymbols, date_obj \in Dates, plain \in Markets,
       suffixed \in Markets :
        GetHistoricalPrice(symbol, date_obj, plain, suffixed)

SpecHistory == Init /\ [][NextHistory]_vars

\* Answers in which the upstream sub-calls raise, one by one and together.
ErrorAnswers ==
    {[Healthy EXCEPT !.fastRaise = f, !.infoRaise = i, !.history = h] :
        f \in {"none", "fast_info", "marketCap"},
        i \in {{}, {"price"}, {"trailingPE"}, InfoSites},
        h \in {Bars, HistoryDown}}

\* One call of any caller-facing operation against an upstream that raises.
InitErrors ==
    /\ cache = [k \in {} |-> None]
    /\ now = 0
    /\ upstream \in ErrorAnswers
    /\ last = NoCall
    /\ budget = 1
    /\ served = NothingServed
    /\ PopularIdle
    /\ hung = {}
    /\ calls = NoCalls

NextErrors ==
    \/ \E symbol \in Symbols, include_sparkline \in BOOLEAN :
          GetStockQuote(symbol, include_sparkline)
    \/ \E symbol \in HistSymbols, date_obj \in Dates, plain \in Markets,
          suffixed \in Markets :
          GetHistoricalPrice(symbol, date_obj, plain, suffixed)
    \/ PopularBegin
    \/ Submit
    \/ \E s \in PopularSet : WorkerStarts(s)
    \/ \E s \in PopularSet : WorkerReturns(s)
    \/ AsCompleted
    \/ Collect
    \/ LoopEnds
    \/ PopularReturns

SpecErrors == InitErrors /\ [][NextErrors]_vars

(***************************************************************************)
(* What the upstream delivered, for the statements below.                  *)
(***************************************************************************)
NoFields(rec) == [k \in DOMAIN rec |-> None]

\* The fast-snapshot fields that were read before the snapshot raised.
FastSeen(up) ==
    LET f == up.fast_info
        fr == up.fastRaise
        none == NoFields(f)
        price == [none EXCEPT !.lastPrice = f.lastPrice,
                              !.regularMarketPrice = f.regularMarketPrice]
        close == [price EXCEPT !.previousClose = f.previousClose]
    IN  CASE fr = "none" -> f
          [] fr \in {"fast_info", "lastPrice"} -> none
          [] fr = "regularMarketPrice" -> IF Truthy(f.lastPrice) THEN f ELSE none
          [] fr = "previousClose" -> price
          [] fr = "lastVolume" -> close
          [] fr = "volume" -> IF Truthy(f.lastVolume) THEN f ELSE close
          [] fr = "marketCap" -> [f EXCEPT !.marketCap = None]

\* The full-snapshot fields, absent when reading the snapshot raises.
InfoSeen(up) == IF "price" \in up.infoRaise THEN NoFields(up.info) ELSE up.info

\* The first usable (non-null, nonzero) value of a chain of optional values.
RECURSIVE FirstOf(_)
FirstOf(chain) ==
    IF chain = <<>> THEN None
    ELSE IF Truthy(Head(chain)) THEN Head(chain)
    ELSE FirstOf(Tail(chain))

PriceChain(up) ==
    FirstOf(<<FastSeen(up).lastPrice, FastSeen(up).regularMarketPrice,
              InfoSeen(up).currentPrice, InfoSeen(up).regularMarketPrice>>)

PreviousCloseChain(up) ==
    FirstOf(<<FastSeen(up).previousClose, InfoSeen(up).previousClose,
              InfoSeen(up).regularMarketPreviousClose>>)

VolumeChain(up) ==
    Or(FirstOf(<<FastSeen(up).lastVolume, FastSeen(up).volume,
                 InfoSeen(up).volume, InfoSeen(up).regularMarketVolume>>), Some(0))

MarketCapChain(up) ==
    Or(FirstOf(<<FastSeen(up).marketCap, InfoSeen(up).marketCap>>), Some(0))

Called == last.op = "get_stock_quote"
Fetched == Called /\ ~last.hit
Returned == Called /\ last.result # None
Quote == last.result[1]

\* The age, at the last call, of the entry its key had.
AgeBefore == last.at - last.before[1].time

(***************************************************************************)
(* The claims.                                                             *)
(***************************************************************************)

\* C1 (as claimed): when one popular symbol's upstream call never returns and
\* the quotes of the other three have been collected, get_popular_stocks is
\* not still waiting once the per-symbol timeout of 10 s has gone by.
C1_ReturnsDespiteHang ==
    \A h \in hung :
        ~ /\ pc = "loop"
          /\ futures[h].state = "running"
          /\ \A s \in PopularSet \ {h} : futures[s].state = "yielded"
          /\ Len(stocks) = Len(POPULAR_SYMBOLS) - 1
          /\ now - waitSince > FutureTimeout

\* C2 (as claimed): get_stock_quote returns a Quote whenever some link of the
\* price chain resolves, whichever other upstream sub-calls fail; None only
\* when no link resolves.
C2_QuoteWheneverPriced ==
    Fetched => (last.result = None <=> ~Truthy(PriceChain(upstream)))

\* C3: a get_stock_quote(S, False) that finds the entry of an earlier
\* get_stock_quote(S, False) younger than the freshness window returns the
\* Quote that call returned and makes no upstream call at all.
C3_FreshRepeatIsServedFromCache ==
    (Called /\ ~last.include_sparkline /\ last.prev # None
       /\ last.before # None /\ AgeBefore < CacheDuration)
    => /\ last.result = last.prev
       /\ last.result = Some(last.before[1].data)
       /\ last.calls = NoUpstreamCalls

C3_Witness ==
    /\ Called /\ ~last.include_sparkline /\ last.prev # None
    /\ last.before # None /\ AgeBefore = CacheDuration - 1
    /\ last.result = last.prev
    /\ last.calls = NoUpstreamCalls

\* C4: the two sparkline flags of a symbol have distinct cache keys: a call
\* is served from the cache only with the Quote an earlier call with the same
\* symbol and the same flag returned, and a first call with a flag goes
\* upstream even while the entry of the other flag is fresh.
C4_FlagsCachedApart ==
    Called =>
        /\ CacheKey(last.symbol, TRUE) # CacheKey(last.symbol, FALSE)
        /\ last.hit => (last.prev # None /\ last.result = last.prev)
        /\ last.prev = None => (~last.hit /\ last.calls.fast_info = 1)

C4_Witness ==
    /\ Called /\ last.prev = None /\ ~last.hit /\ last.result # None
    /\ LET other == CacheKey(last.symbol, ~last.include_sparkline)
       IN  /\ other \in DOMAIN cache
           /\ served[<<last.symbol, ~last.include_sparkline>>] # None
           /\ last.at - cache[other].time < CacheDuration

\* C5: an entry is served only while its age is strictly below the freshness
\* window; at an age of the window or more the lookup is a miss that starts
\* an upstream fetch, the stale entry stays if the fetch fails and is replaced
\* by the new record if it succeeds.
C5_ServedOnlyWhileFresh ==
    Called =>
        /\ last.hit <=> (last.before # None /\ AgeBefore < CacheDuration)
        /\ ~last.hit => last.calls.fast_info = 1
        /\ (last.before # None /\ ~last.hit) =>
              LET key == CacheKey(last.symbol, last.include_sparkline)
              IN  /\ key \in DOMAIN cache
                  /\ IF last.result = None
                     THEN cache[key] = last.before[1]
                     ELSE /\ cache[key].data = last.result[1]
                          /\ cache[key].time >= last.at

C5_Witness ==
    /\ Called /\ last.before # None /\ AgeBefore = CacheDuration
    /\ ~last.hit /\ last.result = None
    /\ cache[CacheKey(last.symbol, last.include_sparkline)] = last.before[1]

\* C6 (as claimed): the cache key is built from the uppercased symbol, so a
\* call whose symbol differs only in letter case from that of a fresh entry
\* with the same flag is a cache hit.
C6_KeyIgnoresLetterCase ==
    Called =>
        \A s \in last.freshBefore : Upper(s) = Upper(last.symbol) => last.hit

\* C7: the price of a fetched Quote is the first usable value of fast
\* lastPrice, fast regularMarketPrice, full currentPrice, full
\* regularMarketPrice, and the full snapshot is read for the price only when
\* the fast snapshot gave none.
C7_PriceFromFirstLink ==
    (Fetched /\ Returned) =>
        /\ Truthy(PriceChain(upstream))
        /\ Quote.price = Round2(PriceChain(upstream)[1])
        /\ last.calls.infoForPrice = 1 <=>
              ~Truthy(FirstOf(<<FastSeen(upstream).lastPrice,
                                FastSeen(upstream).regularMarketPrice>>))

C7_Witness ==
    /\ Fetched /\ Returned
    /\ Truthy(FastSeen(upstream).lastPrice)
    /\ Truthy(InfoSeen(upstream).currentPrice)
    /\ Quote.price = Round2(upstream.fast_info.lastPrice[1])
    /\ Quote.price # Round2(upstream.info.currentPrice[1])
    /\ last.calls.infoForPrice = 0

\* C8 (as claimed): previous_close has its own chain, fast previous close,
\* then full previousClose / regularMarketPreviousClose, then the current
\* price, whichever snapshot gave the price; change is the price minus it.
C8_PreviousCloseOwnChain ==
    (Fetched /\ Returned /\ Truthy(PriceChain(upstream))) =>
        LET price == PriceChain(upstream)[1]
            close == Or(PreviousCloseChain(upstream), Some(price))[1]
        IN  Quote.change = Round2(price - close)

\* C9 (as claimed): volume and market_cap each have their own chain, fast
\* values first, then the full snapshot's, then 0, whichever snapshot gave
\* the price.
C9_VolumeAndCapOwnChains ==
    (Fetched /\ Returned) =>
        /\ Quote.volume = VolumeChain(upstream)[1]
        /\ Quote.market_cap = MarketCapChain(upstream)[1]

\* C10: a fetched Quote for which no snapshot gives a previous close has
\* change = 0 and change_percent = 0.
C10_NoPreviousCloseZeroChange ==
    (Fetched /\ Returned /\ ~Truthy(PreviousCloseChain(upstream))) =>
        /\ Quote.change = 0
        /\ Quote.change_percent = 0

C10_Witness ==
    /\ Fetched /\ Returned
    /\ ~Truthy(PreviousCloseChain(upstream))
    /\ Quote.price > 0
    /\ Quote.change = 0 /\ Quote.change_percent = 0

\* The upstream has no closing prices to give: the history request raised
\* or returned no bars.
NoSparklineData(up) == up.history.raises \/ up.history.Close = <<>>

\* C11 (as claimed): a returned Quote has the sparkline field exactly when
\* include_sparkline was true; requested with no data available (the history
\* request raised or returned no bars) the field is the empty sequence, and
\* the Quote is returned and cached all the same.
C11_SparklineIffRequested ==
    Returned =>
        /\ Quote.sparkline # None <=> last.include_sparkline
        /\ (Fetched /\ last.include_sparkline /\ NoSparklineData(upstream))
              => Quote.sparkline = Some(<<>>)
        /\ LET key == CacheKey(last.symbol, last.include_sparkline)
           IN  key \in DOMAIN cache /\ cache[key].data = Quote

\* The fast snapshot raised during lines 55-59: an access that raises was
\* reached (the `or` chains skip the accesses after a usable value).
FastRaised(up) ==
    /\ up.fastRaise # "none"
    /\ ~(up.fastRaise = "regularMarketPrice" /\ Truthy(up.fast_info.lastPrice))
    /\ ~(up.fastRaise = "volume" /\ Truthy(up.fast_info.lastVolume))

\* C12 (as claimed): when the fast-snapshot lookup raises at any point, none
\* of price, previous close, volume and market cap is taken from it:
\* get_stock_quote returns what it returns when the fast snapshot cannot be
\* read at all.
C12_RaisedFastSnapshotIsAbsent ==
    (Fetched /\ FastRaised(upstream)) =>
        last.result = FetchQuote(last.symbol, last.include_sparkline,
                                 [upstream EXCEPT !.fastRaise = "fast_info"],
                                 now)

\* C13: no upstream exception escapes a caller-facing operation: whichever
\* upstream sub-calls raise, get_stock_quote has returned a Quote or None,
\* get_popular_stocks a list, get_historical_price a price or None, and none
\* of them has raised.
C13_NoExceptionEscapes ==
    /\ last.op # "none" => ~last.raised
    /\ \A s \in PopularSet : ~futures[s].exception
    /\ last.op = "get_stock_quote" =>
          \/ last.result = None
          \/ last.result[1].symbol = Upper(last.symbol)
    /\ last.op = "get_popular_stocks" =>
          Len(last.result) \in 0..Len(POPULAR_SYMBOLS)
    /\ last.op = "get_historical_price" =>
          \/ last.result = None
          \/ last.result[1] \in Nat

\* An exception raised inside the try of get_stock_quote, at the unguarded
\* stock.info read of line 100, ended as a returned None.
C13_Witness ==
    /\ Fetched
    /\ QuoteBody(last.symbol, last.include_sparkline, upstream, now).raised
    /\ last.result = None
    /\ ~last.raised

\* C14: a get_popular_stocks that returns (every upstream call terminated)
\* returns exactly the Quotes its per-symbol calls produced: a symbol whose
\* call gave None is dropped, every other symbol's Quote is there exactly
\* once, and the call does not raise.
C14_PopularIsTheQuotesProduced ==
    last.op = "get_popular_stocks" =>
        LET got == {s \in PopularSet : last.quotes[s] # None}
        IN  /\ ~last.raised
            /\ Len(last.result) = Cardinality(got)
            /\ \A s \in got :
                  \E k \in 1..Len(last.result) : last.result[k] = last.quotes[s][1]
            /\ \A k \in 1..Len(last.result) :
                  \E s \in got : last.result[k] = last.quotes[s][1]

C14_Witness ==
    /\ last.op = "get_popular_stocks"
    /\ last.quotes["GOOGL"] = None
    /\ last.quotes["AAPL"] # None /\ last.quotes["TSLA"] # None
    /\ Len(last.result) \in 2..3
    /\ \E k \in 1..Len(last.result) : last.result[k].symbol = "TSLA"

(***************************************************************************)
(* The historical lookup, for the statements below.                        *)
(***************************************************************************)
Looked == last.op = "get_historical_price"

\* The bars a market has in the seven days that begin on the day of the
\* lookup; none when asking the market raises.
BarsInWindow(market) ==
    IF market.raises THEN <<>>
    ELSE SelectSeq(market.bars,
                   LAMBDA bar : /\ last.date_obj.day <= bar.day
                                /\ bar.day < last.date_obj.day + WindowDays)

\* The Low of the bar of a non-empty frame that is first in time.
EarliestLow(frame) ==
    (CHOOSE bar \in {frame[k] : k \in 1..Len(frame)} :
        \A k \in 1..Len(frame) : bar.day <= frame[k].day).Low

TheWindow ==
    [start |-> last.date_obj.day, end |-> last.date_obj.day + WindowDays]

Asked(k) == [start |-> last.queries[k].start, end |-> last.queries[k].end]

\* C15: for a symbol that does not end in .NS, the lookup asks the plain
\* symbol first; it asks symbol.NS once when the plain query gave no bars
\* (empty or raised) and not at all when it gave bars; there are at most
\* two queries and each is over [date, date + 7 days].
C15_OneSuffixedRetry ==
    (Looked /\ ~EndsWith(last.symbol, NS)) =>
        /\ Len(last.queries) = IF BarsInWindow(last.plain) = <<>> THEN 2 ELSE 1
        /\ last.queries[1].ticker = last.symbol
        /\ Len(last.queries) = 2 => last.queries[2].ticker = last.symbol \o NS
        /\ \A k \in 1..Len(last.queries) : Asked(k) = TheWindow

\* The plain query raised, and the retry was made, once, over the same window.
C15_Witness ==
    /\ Looked /\ last.symbol = "RELIANCE" /\ last.date_obj.hour = 15
    /\ last.plain = Down /\ last.suffixed = Indian
    /\ Len(last.queries) = 2
    /\ last.queries[2] = [ticker |-> "RELIANCE.NS", start |-> 5, end |-> 12]
    /\ last.result # None

\* The markets the lookup asked, in order.
Attempts ==
    <<last.plain>> \o (IF Len(last.queries) = 2 THEN <<last.suffixed>> ELSE <<>>)

\* C16: the lookup returns the Low of the earliest bar of the first attempt
\* (plain symbol, then suffixed symbol) that returned bars, and returns
\* None, without raising, exactly when no attempt returned bars.
C16_LowOfFirstBar ==
    Looked =>
        LET with == {k \in 1..Len(Attempts) : BarsInWindow(Attempts[k]) # <<>>}
        IN  /\ ~last.raised
            /\ last.result = None <=> with = {}
            /\ with # {} =>
                  LET k == CHOOSE i \in with : \A j \in with : i <= j
                  IN  last.result = Some(EarliestLow(BarsInWindow(Attempts[k])))

\* A Saturday lookup returns the Monday low: not the Friday bar before the
\* window, nor the later Tuesday bar.
C16_Witness ==
    /\ Looked /\ last.date_obj = Saturday
    /\ last.plain = Weekdays
    /\ Len(last.queries) = 1
    /\ last.result = Some(101500)

\* A symbol that ends in an exchange suffix of the upstream.
CarriesRegionalSuffix(symbol) == EndsWith(symbol, NS) \/ EndsWith(symbol, ".BO")

\* C17 (as claimed): for a symbol that already carries a regional suffix
\* exactly one history query is issued, and the lookup returns None when
\* that query has no bars.
C17_NoRetryForSuffixedSymbol ==
    (Looked /\ CarriesRegionalSuffix(last.symbol)) =>
        /\ Len(last.queries) = 1
        /\ BarsInWindow(last.plain) = <<>> => last.result = None

\* C17 (amended): for a symbol that already ends in .NS exactly one history
\* query is issued, and the lookup returns None when that query has no bars.
C17_NoRetryForNSSymbol ==
    (Looked /\ EndsWith(last.symbol, NS)) =>
        /\ Len(last.queries) = 1
        /\ last.queries[1].ticker = last.symbol
        /\ BarsInWindow(last.plain) = <<>> => last.result = None

C17_Witness ==
    /\ Looked /\ last.symbol = "RELIANCE.NS"
    /\ last.plain = Unlisted /\ last.suffixed = Indian
    /\ Len(last.queries) = 1
    /\ last.result = None

\* A Quote with every field filled: symbol, name, price, change,
\* change_percent, integer volume and market_cap, pe_ratio (a number or
\* None) and updated_at.
FullyPopulated(q) ==
    /\ q.symbol # "" /\ q.name # ""
    /\ q.price \in Int /\ q.change \in Int /\ q.change_percent \in Int
    /\ q.volume \in Nat /\ q.market_cap \in Nat
    /\ q.pe_ratio = None \/ (Len(q.pe_ratio) = 1 /\ q.pe_ratio[1] \in Nat)
    /\ q.updated_at \in Nat

\* The price fields of both snapshots, as the upstream holds them.
PriceFields(up) ==
    {up.fast_info.lastPrice, up.fast_info.regularMarketPrice,
     up.info.currentPrice, up.info.regularMarketPrice}

\* C18: every Quote get_stock_quote returns and every Quote the cache holds
\* is fully populated, and its price is a usable (non-null, nonzero) price
\* of the upstream, rounded: no Quote with an unresolved price is returned
\* or stored.
C18_QuotesFullyPopulated ==
    /\ \A key \in DOMAIN cache : FullyPopulated(cache[key].data)
    /\ Returned => FullyPopulated(Quote)
    /\ (Fetched /\ Returned) =>
          \E f \in PriceFields(upstream) : Truthy(f) /\ Quote.price = Round2(f[1])
    /\ (Fetched /\ ~Truthy(PriceChain(upstream))) =>
          (last.result = None /\ cache = [k \in {} |-> None])

\* A fetch that found only a price of 0 returned nothing and stored nothing.
C18_Witness ==
    /\ Fetched
    /\ upstream.fast_info.regularMarketPrice = Some(0)
    /\ FastInfoBlock(upstream).current_price = Some(0)
    /\ "price" \in upstream.infoRaise
    /\ last.result = None
    /\ cache = [k \in {} |-> None]

\* Reading the full snapshot for the name raised: at the long name, or at
\* the short name when there was no long name.
NameReadRaised(up) ==
    \/ "longName" \in up.infoRaise
    \/ ~TruthyStr(up.info.longName) /\ "shortName" \in up.infoRaise

\* C19: the symbol of a returned Quote is the requested symbol in upper
\* case, and its name is the full snapshot's long name, else its short
\* name, else the symbol as it was given, also when reading the full
\* snapshot raises.
C19_SymbolUpperNameChain ==
    /\ Returned => Quote.symbol = Upper(last.symbol)
    /\ (Fetched /\ Returned) =>
          Quote.name =
              IF NameReadRaised(upstream) THEN last.symbol
              ELSE IF TruthyStr(upstream.info.longName)
                   THEN upstream.info.longName[1]
              ELSE IF TruthyStr(upstream.info.shortName)
                   THEN upstream.info.shortName[1]
              ELSE last.symbol

\* An empty long name gives way to the short name, for a symbol asked in
\* lower case.
C19_Witness ==
    /\ Fetched /\ Returned /\ last.symbol = "aapl"
    /\ upstream.info.longName = Some("")
    /\ upstream.infoRaise = {}
    /\ Quote.symbol = "AAPL"
    /\ Quote.name = "Apple"

\* The unrounded price and previous close the change is computed from.
ResolvedPrice == PriceChain(upstream)[1]

ResolvedPreviousClose ==
    PreviousCloseOrPrice(InfoBlock(FastInfoBlock(upstream), upstream))

\* C20: change is the price minus the previous close and change_percent is
\* change / previous close * 100 (0 for a previous close of 0), both taken
\* on the unrounded values and rounded to 2 decimals in the Quote; fast
\* lastPrice 150.00 with previousClose 148.00 gives price 150.00, change
\* 2.00 and change_percent 1.35.
C20_ChangeAndPercent ==
    (Fetched /\ Returned) =>
        LET p == ResolvedPrice
            c == ResolvedPreviousClose
        IN  /\ Quote.price = Round2(p)
            /\ Quote.change = Round2(p - c)
            /\ Quote.change_percent =
                  IF c # 0 THEN RoundDiv((p - c) * 100 * 100, c) ELSE 0
            /\ (p = 150000 /\ c = 148000) =>
                  /\ Quote.price = 15000
                  /\ Quote.change = 200
                  /\ Quote.change_percent = 135

C20_Witness ==
    /\ Fetched /\ Returned
    /\ upstream.fastRaise = "none"
    /\ upstream.fast_info.lastPrice = Some(150000)
    /\ upstream.fast_info.previousClose = Some(148000)
    /\ Quote.price = 15000 /\ Quote.change = 200 /\ Quote.change_percent = 135

\* C21 (as claimed): a per-symbol fetch that has run past its timeout is
\* abandoned: get_popular_stocks is never held by a fetch still in flight
\* for longer than the timeout of 10 s.
C21_TimedOutFetchIsAbandoned ==
    \A s \in PopularSet :
        ~ /\ pc \in {"as_completed", "loop", "exit"}
          /\ futures[s].state = "running"
          /\ ~CallerCanStep
          /\ now - waitSince > FutureTimeout

(***************************************************************************)
(* Concurrent calls, for the statements below.                             *)
(***************************************************************************)
Done == {t \in Threads : calls[t].state = "done"}

\* The (Quote, storedAt) pairs the fetches of the threads produced for a key.
Produced(key) ==
    {calls[t].stored[1] : t \in {u \in Done : calls[u].key = key
                                             /\ calls[u].stored # None}}

\* C22: under concurrent get_stock_quote calls a key has no entry or one
\* whole (Quote, storedAt) pair that one fetch produced, a reader is given
\* such a pair, never a mix of two; and after racing stores for a key its
\* entry is the record of the store that ran last.
C22_NoTornEntry ==
    /\ \A key \in DOMAIN cache : cache[key] \in Produced(key)
    /\ \A t \in Done : calls[t].read # None => calls[t].read[1] \in Produced(calls[t].key)
    /\ \A t \in Done : calls[t].hit => calls[t].result = Some(calls[t].read[1].data)
    /\ (last.op = "store" /\ last.record # None) => cache[last.key] = last.record[1]

\* Two threads stored different records for one key; the entry is the later
\* one.
C22_Witness ==
    \E t, u \in Done :
        /\ t # u /\ calls[t].key = calls[u].key
        /\ ~calls[t].hit /\ ~calls[u].hit
        /\ calls[t].stored # None /\ calls[u].stored # None
        /\ calls[t].stored[1].data.price # calls[u].stored[1].data.price
        /\ calls[t].stored[1].time < calls[u].stored[1].time
        /\ last.op = "store" /\ last.thread = u
        /\ cache[calls[u].key] = calls[u].stored[1]

\* C30: there is no single-flight on a miss: a call that misses never waits
\* for another call's fetch of the same key, it makes its own upstream fetch
\* and returns the Quote it built itself, so calls that miss together each
\* fetch.
C30_NoSingleFlight ==
    \A t \in Threads :
        /\ calls[t].state # "waiting"
        /\ (calls[t].state = "done" /\ ~calls[t].hit) =>
              /\ calls[t].fetches = 1
              /\ calls[t].result # None =>
                    /\ calls[t].stored = Some([data |-> calls[t].result[1],
                                               time |-> calls[t].result[1].updated_at])
                    /\ calls[t].result[1].updated_at >= calls[t].at

\* Two calls for one key both missed before either stored, both fetched
\* inside one freshness window, and each returned its own Quote.
C30_Witness ==
    \E t, u \in Done :
        /\ t # u /\ calls[t].key = calls[u].key
        /\ ~calls[t].hit /\ ~calls[u].hit
        /\ calls[t].fetches = 1 /\ calls[u].fetches = 1
        /\ calls[t].result # None /\ calls[u].result # None
        /\ calls[t].stored[1].time > calls[u].at
        /\ calls[u].stored[1].time > calls[t].at
        /\ calls[t].stored[1].time - calls[u].stored[1].time \in 1..(CacheDuration - 1)
        /\ calls[t].result # calls[u].result

(***************************************************************************)
(* Steps of the service, for the statements below.                         *)
(***************************************************************************)
\* The step is a fetch that built a Quote and stored it under the key: a
\* get_stock_quote miss, or the fetch of a pool thread of get_popular_stocks.
FetchStores(key) ==
    \/ /\ budget' = budget - 1
       /\ last'.op = "get_stock_quote" /\ ~last'.hit /\ last'.result # None
       /\ key = CacheKey(last'.symbol, last'.include_sparkline)
       /\ cache'[key] = [data |-> last'.result[1], time |-> now']
    \/ \E s \in PopularSet :
          /\ futures[s].state = "running" /\ futures'[s].state = "finished"
          /\ futures'[s].result # None
          /\ key = CacheKey(s, FALSE)
          /\ cache'[key] = [data |-> futures'[s].result[1], time |-> now']

\* C23: a stored entry is never modified in place: whatever the service
\* does (cache hits, failed fetches, fan-out collection, historical
\* lookups), the pair of a key stays as it is until a new fetch for the key
\* replaces the whole pair.
C23_EntriesImmutable ==
    [][\A key \in DOMAIN cache :
          key \in DOMAIN cache' =>
              \/ cache'[key] = cache[key]
              \/ /\ FetchStores(key)
                 /\ cache'[key].time = now'
                 /\ cache'[key].data.updated_at = now']_vars

\* A stale entry was replaced, Quote and time together, by a new fetch.
C23_Witness ==
    /\ Called /\ ~last.hit /\ last.before # None /\ last.result # None
    /\ LET entry == cache[CacheKey(last.symbol, last.include_sparkline)]
       IN  /\ entry.data = Quote
           /\ entry.time = now
           /\ entry.time >= last.before[1].time + CacheDuration
           /\ entry.data.updated_at # last.before[1].data.updated_at

\* The keys of the requests for which a call has returned a Quote.
SucceededKeys ==
    {CacheKey(r[1], r[2]) : r \in {q \in DOMAIN served : served[q] # None}}

\* C25: no operation removes a key from the cache: the set of keys only
\* grows, and it is the set of (symbol, flag) requests for which a fetch
\* has succeeded.
C25_KeysOnlyGrow ==
    [][/\ DOMAIN cache \subseteq DOMAIN cache'
       /\ DOMAIN cache = SucceededKeys
       /\ DOMAIN cache' = SucceededKeys']_vars

\* Five keys are held at once, one of them long stale.
C25_Witness ==
    /\ Cardinality(DOMAIN cache) >= Len(POPULAR_SYMBOLS) + 1
    /\ \E key \in DOMAIN cache : now - cache[key].time >= CacheDuration
    /\ \E key \in DOMAIN cache : now - cache[key].time < CacheDuration

\* C26: get_historical_price neither reads nor writes the quote cache: a
\* lookup leaves the cache as it was, asks the upstream for the symbol
\* whatever is cached, and returns the upstream's low or None, never a
\* cached price.
C26_HistoricalBypassesCache ==
    [][(budget' = budget - 1 /\ last'.op = "get_historical_price") =>
          /\ cache' = cache
          /\ Len(last'.queries) >= 1
          /\ last'.queries[1].ticker = last'.symbol
          /\ C16_LowOfFirstBar']_vars

\* A lookup for a symbol with a fresh cached Quote asked the upstream and
\* returned None.
C26_Witness ==
    /\ Looked /\ last.symbol = "AAPL"
    /\ Fresh(CacheKey("AAPL", FALSE))
    /\ last.plain = Down /\ last.suffixed = Unlisted
    /\ Len(last.queries) = 2
    /\ last.result = None

\* C24: get_popular_stocks submits one fetch for each popular symbol, the
\* symbols in list order and none twice, and at no moment are more than 5
\* fetches executing.
C24_OneFetchPerSymbolAtMostFive ==
    /\ Cardinality(Running) <= MaxWorkers
    /\ Cardinality(PopularSet) = Len(POPULAR_SYMBOLS)
    /\ pc = "idle" => Submitted = {}
    /\ pc = "submit" =>
          /\ Cardinality(Submitted) < Len(POPULAR_SYMBOLS)
          /\ Submitted = {POPULAR_SYMBOLS[k] : k \in 1..Cardinality(Submitted)}
    /\ pc \in {"as_completed", "loop", "exit"} => Submitted = PopularSet

\* All four fetches execute at once while the caller waits in the loop.
C24_Witness ==
    /\ pc = "loop"
    /\ Running = PopularSet
    /\ Cardinality(Running) = Len(POPULAR_SYMBOLS)

\* The collecting loop is over and get_popular_stocks is about to return
\* the list it built.
AboutToReturn == pc = "exit"

\* The place of a symbol's Quote in that list.
Place(s) == CHOOSE k \in 1..Len(stocks) : stocks[k].symbol = s

Got == {s \in PopularSet : ~futures[s].exception /\ futures[s].result # None}

\* C27 (as claimed): the returned list is in completion order: when A's
\* fetch completed before B's and both gave a Quote, A's Quote precedes B's.
C27_CompletionOrder ==
    AboutToReturn =>
        \A a, b \in Got :
            futures[a].order < futures[b].order => Place(a) < Place(b)

\* C27 (amended): the returned list is in the order as_completed yields:
\* when A's fetch completed before B's, both gave a Quote, and B was not
\* yet finished when the collecting loop started, A's Quote precedes B's.
C27_YieldOrder ==
    AboutToReturn =>
        \A a, b \in Got :
            (futures[a].order < futures[b].order /\ ~futures[b].early)
                => Place(a) < Place(b)

\* TSLA finished before AAPL, both after the loop started, and TSLA's Quote
\* comes first although AAPL is first in the input.
C27_Witness ==
    /\ AboutToReturn
    /\ {"AAPL", "TSLA"} \subseteq Got
    /\ ~futures["AAPL"].early /\ ~futures["TSLA"].early
    /\ futures["TSLA"].order < futures["AAPL"].order
    /\ Place("TSLA") < Place("AAPL")

\* The key of the last get_stock_quote call.
LastKey == CacheKey(last.symbol, last.include_sparkline)

\* C28: a get_stock_quote that returns None leaves the cache exactly as it
\* was, nothing added and nothing overwritten; its key is then not fresh,
\* and the next call for the key goes to the upstream again.
C28_FailureLeavesCache ==
    [][/\ (budget' = budget - 1 /\ last'.op = "get_stock_quote"
             /\ last'.result = None)
          => /\ cache' = cache
             /\ ~last'.hit
             /\ last'.calls.fast_info = 1
       /\ (Called' /\ last'.result = None) => ~Fresh(LastKey)'
       /\ (Called /\ last.result = None /\ budget' = budget - 1
             /\ last'.op = "get_stock_quote" /\ LastKey' = LastKey)
          => (~last'.hit /\ last'.calls.fast_info = 1)]_vars

\* A call failed on a key without an entry, beside the entry of another
\* key: nothing was stored for it and the other entry is as it was.
C28_Witness ==
    /\ Called /\ ~last.hit /\ last.result = None
    /\ last.before = None
    /\ LastKey \notin DOMAIN cache
    /\ DOMAIN cache # {}
    /\ last.calls.fast_info = 1

\* C29: an entry whose age has reached the freshness window is never served:
\* the call is a miss that goes to the upstream and returns a newly fetched
\* Quote or None, also when the refresh fails and the stale entry stays.
C29_StaleNeverServed ==
    (Called /\ last.before # None /\ AgeBefore >= CacheDuration) =>
        /\ ~last.hit
        /\ last.calls.fast_info = 1
        /\ last.result # Some(last.before[1].data)
        /\ last.result # None => last.result[1].updated_at >= last.at

\* A stale entry was refreshed by a fetch against a changed upstream.
C29_Witness ==
    /\ Called /\ last.before # None /\ AgeBefore >= CacheDuration
    /\ ~last.hit /\ last.result # None
    /\ Quote.price # last.before[1].data.price
    /\ Quote.updated_at >= last.before[1].data.updated_at + CacheDuration
    /\ cache[LastKey].data = Quote

====
